---- MODULE Spec2Model ----
(***************************************************************************)
(* A model of the two reusable components of the reservation tutorial      *)
(* repository: the generic document repository (AbstractRepository) and    *)
(* the delegated authentication guard (the common JwtAuthGuard, the auth   *)
(* service that answers its 'authenticate' call, and the guarded           *)
(* reservations endpoints).                                                *)
(***************************************************************************)
EXTENDS Integers, Sequences, FiniteSets, TLC

(***************************************************************************)
(* Bounds of the model.                                                    *)
(***************************************************************************)
\* ObjectIds handed out by `new Types.ObjectId()` are 1..MaxDocs.
MaxDocs == 2

(***************************************************************************)
(* Documents, filters and updates.                                         *)
(*                                                                         *)
(* A document is a function from field names to values; every stored       *)
(* document has the field "_id".  NoDoc stands for null / undefined.       *)
(* A FilterQuery is a function from field names to the values they must    *)
(* equal ({} matches everything, {_id} one document at most).  An update   *)
(* is the field map of a $set.                                             *)
(***************************************************************************)
NoDoc == [f \in {} |-> 0]

\* Values of the date fields of the documents the repository is driven with.
Dates == {1, 2}

\* Fields of the documents the repository is driven with (reservation.entity).
RepoFields == {"startDate", "endDate"}

Oids == 1..MaxDocs

\* What callers hand to create: all fields, and possibly an _id of their own.
CreateInputs ==
  [RepoFields -> Dates] \cup
  {("_id" :> 1) @@ d : d \in [RepoFields -> Dates]}

EmptyFilter == NoDoc

IdFilter(id) == ("_id" :> id)

\* Every document, one document by _id (MaxDocs + 1 is never stored), and the
\* documents that start on date 1.
Filters ==
  {EmptyFilter} \cup {IdFilter(i) : i \in 1..(MaxDocs + 1)}
    \cup {("startDate" :> 1)}

\* Non-empty partial updates over the fields.
Updates ==
  UNION {[S -> Dates] : S \in (SUBSET RepoFields) \ {{}}}

(***************************************************************************)
(* The store primitives the repository calls (Mongoose model methods).     *)
(* A collection is the sequence of its documents in insertion order.       *)
(***************************************************************************)
Matches(doc, filterQuery) ==
  \A f \in DOMAIN filterQuery : f \in DOMAIN doc /\ doc[f] = filterQuery[f]

MatchIdx(coll, filterQuery) ==
  {i \in 1..Len(coll) : Matches(coll[i], filterQuery)}

FirstIdx(coll, filterQuery) ==
  CHOOSE i \in MatchIdx(coll, filterQuery) :
    \A j \in MatchIdx(coll, filterQuery) : i <= j

\* model.findOne(filterQuery).lean(true): the first match, or null.
ModelFindOne(coll, filterQuery) ==
  IF MatchIdx(coll, filterQuery) = {} THEN NoDoc
  ELSE coll[FirstIdx(coll, filterQuery)]

\* model.find(filterQuery).lean(true): every match.
ModelFind(coll, filterQuery) ==
  SelectSeq(coll, LAMBDA d : Matches(d, filterQuery))

\* A replacement instead of a $set: the fields the update does not name are lost.
ApplySetReplace(doc, update) == update @@ ("_id" :> doc["_id"])

\* $set: the named fields take the new values, the others keep theirs.
ApplySet(doc, update) == update @@ doc

RemoveAt(coll, i) ==
  [j \in 1..(Len(coll) - 1) |-> IF j < i THEN coll[j] ELSE coll[j + 1]]

(***************************************************************************)
(* AbstractRepository.  Each operation yields the collection it leaves,    *)
(* its outcome ("ok", "NotFound", or "StoreError" when the store call      *)
(* itself throws: `up` is whether that call completes) and its result.     *)
(***************************************************************************)
Outcome(coll, outcome, result) ==
  [store |-> coll, outcome |-> outcome, result |-> result]

\* A create that spreads the caller's document last: {_id: ..., ...document}.
NewDocumentCallerId(document, oid) == document @@ ("_id" :> oid)

\* new this.model({...document, _id: new Types.ObjectId()}).save()
NewDocument(document, oid) == ("_id" :> oid) @@ document

RepoCreate(coll, document, oid, up) ==
  LET createdDocument == NewDocument(document, oid)
  IN IF up /\ MatchIdx(coll, IdFilter(createdDocument["_id"])) = {}
     THEN Outcome(Append(coll, createdDocument), "ok", createdDocument)
     ELSE Outcome(coll, "StoreError", NoDoc)

\* Without the throw on a missing document.
OrNotFoundLenient(coll, document) == Outcome(coll, "ok", document)

\* if (!document) throw new NotFoundException(...)
OrNotFound(coll, document) ==
  IF document = NoDoc THEN Outcome(coll, "NotFound", NoDoc)
  ELSE Outcome(coll, "ok", document)

RepoFindOne(coll, filterQuery, up) ==
  IF ~up THEN Outcome(coll, "StoreError", NoDoc)
  ELSE OrNotFound(coll, ModelFindOne(coll, filterQuery))

\* An update of every match (updateMany) that reports the first.
RepoFindOneAndUpdateMany(coll, filterQuery, update, up) ==
  IF ~up THEN Outcome(coll, "StoreError", NoDoc)
  ELSE IF MatchIdx(coll, filterQuery) = {} THEN OrNotFound(coll, NoDoc)
  ELSE OrNotFound(
         [i \in 1..Len(coll) |->
            IF Matches(coll[i], filterQuery) THEN ApplySet(coll[i], update)
            ELSE coll[i]],
         ApplySet(coll[FirstIdx(coll, filterQuery)], update))

\* A findOneAndUpdate without { new: true }: the document as it was.
RepoFindOneAndUpdateOld(coll, filterQuery, update, up) ==
  IF ~up THEN Outcome(coll, "StoreError", NoDoc)
  ELSE IF MatchIdx(coll, filterQuery) = {} THEN OrNotFound(coll, NoDoc)
  ELSE LET i == FirstIdx(coll, filterQuery)
           document == ApplySet(coll[i], update)
       IN OrNotFound([coll EXCEPT ![i] = document], coll[i])

\* The store refuses a $set that would change the _id of the document.
ChangesId(doc, update) ==
  "_id" \in DOMAIN update /\ update["_id"] # doc["_id"]

\* model.findOneAndUpdate(filterQuery, update, { new: true }).lean(true)
RepoFindOneAndUpdate(coll, filterQuery, update, up) ==
  IF ~up THEN Outcome(coll, "StoreError", NoDoc)
  ELSE IF MatchIdx(coll, filterQuery) = {} THEN OrNotFound(coll, NoDoc)
  ELSE LET i == FirstIdx(coll, filterQuery)
           document == ApplySet(coll[i], update)
       IN IF ChangesId(coll[i], update) THEN Outcome(coll, "StoreError", NoDoc)
          ELSE OrNotFound([coll EXCEPT ![i] = document], document)

\* A find that treats no match as the other operations do.
RepoFindStrict(coll, filterQuery, up) ==
  IF ~up THEN Outcome(coll, "StoreError", <<>>)
  ELSE IF MatchIdx(coll, filterQuery) = {} THEN Outcome(coll, "NotFound", <<>>)
  ELSE Outcome(coll, "ok", ModelFind(coll, filterQuery))

\* model.find(filterQuery).lean(true), returned as it is
RepoFind(coll, filterQuery, up) ==
  IF ~up THEN Outcome(coll, "StoreError", <<>>)
  ELSE Outcome(coll, "ok", ModelFind(coll, filterQuery))

\* A findOneAndDelete that looks the document up and leaves it stored.
RepoFindOneAndDeleteKeep(coll, filterQuery, up) ==
  IF ~up THEN Outcome(coll, "StoreError", NoDoc)
  ELSE OrNotFound(coll, ModelFindOne(coll, filterQuery))

\* model.findOneAndDelete(filterQuery).lean(true)
RepoFindOneAndDelete(coll, filterQuery, up) ==
  IF ~up THEN Outcome(coll, "StoreError", NoDoc)
  ELSE IF MatchIdx(coll, filterQuery) = {} THEN OrNotFound(coll, NoDoc)
  ELSE LET i == FirstIdx(coll, filterQuery)
       IN OrNotFound(RemoveAt(coll, i), coll[i])

(***************************************************************************)
(* State.                                                                  *)
(***************************************************************************)
(***************************************************************************)
(* Credentials, tokens and the two services' pure steps.                   *)
(***************************************************************************)
\* Request slots of the reservations service, registrations in progress at
\* once, the last tick of the clock, and JWT_EXPIRATION in ticks.
NumReqs == 2
NumRegs == 2
MaxTime == 2
JwtExpiration == 1

JwtSecret == "your_secret_key"
OtherSecret == "not_the_secret"

\* The values a credential location can hold: undefined, the empty string, a
\* string that is no token, or a token (its payload, expiry and signing key).
Undefined == [kind |-> "undefined", userId |-> 0, exp |-> 0, sig |-> ""]
EmptyString == [kind |-> "empty", userId |-> 0, exp |-> 0, sig |-> ""]
Garbage == [kind |-> "garbage", userId |-> 0, exp |-> 0, sig |-> ""]
Jwt(userId, exp, secret) ==
  [kind |-> "jwt", userId |-> userId, exp |-> exp, sig |-> secret]

\* JavaScript truthiness of a credential value, and a || b.
Truthy(v) == v.kind \notin {"undefined", "empty"}
Or(a, b) == IF Truthy(a) THEN a ELSE b

\* An object that may be missing (cookies, headers) and obj?.Authentication.
Absent == [present |-> FALSE, Authentication |-> Undefined]
Holding(v) == [present |-> TRUE, Authentication |-> v]
Opt(obj) == IF obj.present THEN obj.Authentication ELSE Undefined

\* jwtService.sign with expiresIn.
Sign(userId, t) == Jwt(userId, t + JwtExpiration, JwtSecret)

\* A verification with ignoreExpiration set.
VerifyJwtIgnoreExpiration(token, secret, t) ==
  token.kind = "jwt" /\ token.sig = secret

\* The verification passport-jwt makes with secretOrKey: a token, signed with
\* that key, not yet expired.
VerifyJwt(token, secret, t) ==
  token.kind = "jwt" /\ token.sig = secret /\ t < token.exp

\* bcrypt.hash and bcrypt.compare.
Plain(pw) == [plain |-> pw, hashed |-> FALSE]
\* A hash that gives the password back.
HashNothing(password) == password

Hash(password) == [plain |-> password.plain, hashed |-> TRUE]
Compare(password, hash) == hash = Hash(password)

\* A verifyUser that returns the user found without comparing the password.
VerifyUserNoCompare(found, password) == found

\* UsersService.verifyUser on what its findOne({email}) gave: the user found,
\* if the password is the one its hash was made of; findOne's error, or
\* Unauthorized 'Credentials are not valid.'
VerifyUser(found, password) ==
  IF found.outcome # "ok" THEN found
  ELSE IF ~Compare(password, found.result.password)
       THEN Outcome(found.store, "CredentialsNotValid", NoDoc)
       ELSE found

\* LocalStrategy.validate: the user verifyUser returns, and any error it
\* throws wrapped as new UnauthorizedException(error): the status is 401 and
\* the body of the response is the error wrapped.
LocalStrategyValidate(found, password) ==
  LET r == VerifyUser(found, password)
  IN IF r.outcome = "ok"
     THEN [outcome |-> "ok", user |-> r.result, status |-> 201, body |-> ""]
     ELSE [outcome |-> "Unauthorized", user |-> NoDoc, status |-> 401,
           body |-> r.outcome]

\* Date.getSeconds and Date.setSeconds, time counted in seconds; setSeconds
\* carries seconds beyond 59 into the minutes.
SecondsPerMinute == 60
GetSeconds(t) == t % SecondsPerMinute
SetSeconds(t, seconds) == (t - GetSeconds(t)) + seconds

\* The number of decimal digits of n.
RECURSIVE Digits(_)
Digits(n) == IF n < 10 THEN 1 ELSE 1 + Digits(n \div 10)

RECURSIVE Pow10(_)
Pow10(k) == IF k = 0 THEN 1 ELSE 10 * Pow10(k - 1)

\* a + b for a number a and a string b of decimal digits, read back as a
\* number by setSeconds: the digits of a followed by those of b.
PlusString(a, b) == a * Pow10(Digits(b)) + b

\* configService.get('JWT_EXPIRATION') is the string the environment holds
\* (Joi.string()), so getSeconds() + it is a concatenation.
CookieExpires(t) == SetSeconds(t, PlusString(GetSeconds(t), JwtExpiration))

\* AuthService.login: the token signed for the user's id and the expiry of
\* the cookie that carries it.
AuthLogin(user, t) ==
  [token |-> Sign(user["_id"], t), expires |-> CookieExpires(t)]

\* What the authority answers to an 'authenticate' message.
OkReply(user, t) == [status |-> "ok", error |-> "", user |-> user, at |-> t]
ErrorReply(error, t) ==
  [status |-> "error", error |-> error, user |-> NoDoc, at |-> t]
NoReply == [status |-> "none", error |-> "", user |-> NoDoc, at |-> 0]

\* A request as the guard and the handlers see it.  pc is where the request
\* is: idle (no request in the slot), guard, await (the 'authenticate' call
\* is out), decided, handled.
NoRequest ==
  [pc |-> "idle", cookies |-> Absent, Authentication |-> Undefined,
   headers |-> Absent, sent |-> Undefined, calls |-> 0, reply |-> NoReply,
   decision |-> "none", user |-> NoDoc, handler |-> "none"]
NewRequest(cookies, field, headers) ==
  [NoRequest EXCEPT !.pc = "guard", !.cookies = cookies,
                    !.Authentication = field, !.headers = headers]

\* A lookup in the opposite order: header, request field, cookie.
GuardJwtHeaderFirst(q) ==
  Or(Or(Opt(q.headers), q.Authentication), Opt(q.cookies))

\* const jwt of canActivate: the credential is looked up in the cookie, the
\* request field and the header.
GuardJwt(q) ==
  Or(Or(Opt(q.cookies), q.Authentication), Opt(q.headers))

\* A canActivate without the `if (!jwt)` return.
GuardCanActivateSendAlways(q) ==
  [q EXCEPT !.pc = "await", !.sent = GuardJwt(q), !.calls = @ + 1]

\* JwtAuthGuard.canActivate up to its return: without a credential the
\* request is rejected, else the 'authenticate' message is sent.
GuardCanActivate(q) ==
  IF ~Truthy(GuardJwt(q))
  THEN [q EXCEPT !.pc = "decided", !.decision = "Rejected"]
  ELSE [q EXCEPT !.pc = "await", !.sent = GuardJwt(q), !.calls = @ + 1]

\* A pipe whose catchError yields true.
GuardPipeAdmitAlways(q, reply) ==
  [q EXCEPT !.pc = "decided", !.reply = reply, !.decision = "Admitted",
            !.user = reply.user]

\* A pipe that sends the message again when the call fails.
GuardPipeRetry(q, reply) ==
  IF reply.status = "ok"
  THEN [q EXCEPT !.pc = "decided", !.reply = reply, !.decision = "Admitted",
                 !.user = reply.user]
  ELSE [q EXCEPT !.pc = "await", !.reply = reply, !.calls = @ + 1]

\* The pipe of canActivate when the call ends: tap and map on a value,
\* catchError on an error.
GuardPipe(q, reply) ==
  IF reply.status = "ok"
  THEN [q EXCEPT !.pc = "decided", !.reply = reply, !.decision = "Admitted",
                 !.user = reply.user]
  ELSE [q EXCEPT !.pc = "decided", !.reply = reply, !.decision = "Rejected"]

\* The 'authenticate' message and the extractor of JwtStrategy, which reads
\* request.headers without a guard against a missing headers object.
Message(jwt) ==
  [cookies |-> Absent, Authentication |-> jwt, headers |-> Absent]
\* An extractor that looks in the cookies alone.
JwtFromRequestCookiesOnly(request) ==
  [threw |-> FALSE, jwt |-> Opt(request.cookies)]

JwtFromRequest(request) ==
  LET found == Or(Opt(request.cookies), request.Authentication)
  IN IF Truthy(found) THEN [threw |-> FALSE, jwt |-> found]
     ELSE IF request.headers.present
     THEN [threw |-> FALSE, jwt |-> request.headers.Authentication]
     ELSE [threw |-> TRUE, jwt |-> Undefined]

\* An authority whose validate answers with no user when none is stored
\* under the token's userId, where findOne throws.
AuthAuthenticateLenient(message, users, t, up) ==
  LET x == JwtFromRequest(message)
  IN IF x.threw THEN ErrorReply("TypeError", t)
     ELSE IF ~VerifyJwt(x.jwt, JwtSecret, t) THEN ErrorReply("Unauthorized", t)
     ELSE LET r == RepoFindOne(users, IdFilter(x.jwt.userId), up)
          IN IF r.outcome \in {"ok", "NotFound"} THEN OkReply(r.result, t)
             ELSE ErrorReply(r.outcome, t)

\* AuthController.authenticate behind the auth service's JwtAuthGuard: the
\* token is extracted and verified, JwtStrategy.validate loads the user, and
\* the handler returns it.
AuthAuthenticate(message, users, t, up) ==
  LET x == JwtFromRequest(message)
  IN IF x.threw THEN ErrorReply("TypeError", t)
     ELSE IF ~VerifyJwt(x.jwt, JwtSecret, t) THEN ErrorReply("Unauthorized", t)
     ELSE LET r == RepoFindOne(users, IdFilter(x.jwt.userId), up)
          IN IF r.outcome = "ok" THEN OkReply(r.result, t)
             ELSE ErrorReply(r.outcome, t)

\* The reservations endpoints.
Endpoints == {"create", "findAll", "findOne", "update", "remove"}

\* A controller whose findAll lacks the decorator.
UseGuardsNotOnFindAll(endpoint) == endpoint \in Endpoints \ {"findAll"}

\* The endpoints behind @UseGuards(JwtAuthGuard): all five.
UseGuards(endpoint) == endpoint \in Endpoints


VARIABLES
  reservations,  \* the reservations collection
  nextOid,       \* the next ObjectId of the reservations collection
  last,          \* the repository call that ended last, with its outcome
  created,       \* oid -> what create returned, while that document is untouched
  twice,         \* the last one or two updates that hit the same document
  req,           \* slot -> the request in it, as guard and handlers see it
  users,         \* the users collection of the auth service
  nextUid,       \* the next ObjectId of the users collection
  reg,           \* process -> the registration it is in the middle of
  now,           \* the clock
  cookie,        \* the Authentication cookie the client holds
  login,         \* history: the last POST /auth/login and its response
  signin,        \* the POST /auth/login that is under way
  wire,          \* the 'authenticate' call of each request at the auth service
  bill,          \* the billed create of a reservation that is under way
  intents,       \* the payment intents created
  outbox,        \* the 'notify-email' events emitted and not yet received
  mails,         \* the mails handed to the transporter
  pending        \* caller -> its findOneAndUpdate call on the reservations

repoVars == <<reservations, nextOid, last, created, twice, pending>>
authVars == <<users, nextUid, reg, now, cookie, login, signin, wire>>
vars == <<reservations, nextOid, last, created, twice, req, users, nextUid,
          reg, now, cookie, login, signin, wire, pending, bill, intents,
          outbox, mails>>
payVars == <<bill, intents, outbox, mails>>

\* Callers of findOneAndUpdate that run at the same time, and the call of
\* one: not made, made (out at the store), or returned.  seen is the document
\* the filter matched when the call was made.
Callers == {1, 2}
NoPending ==
  [pc |-> "idle", filter |-> NoDoc, update |-> NoDoc, seen |-> NoDoc,
   outcome |-> "none", id |-> 0]

Reqs == 1..NumReqs
RegProcs == 1..NumRegs
\* Where the 'authenticate' call of a request is at the auth service: not
\* taken up (none), token verified at time at (verified), answer on its way
\* to the guard (answered).
NoWire == [stage |-> "none", at |-> 0, reply |-> NoReply]
NoBill ==
  [pc |-> "idle", dto |-> NoDoc, user |-> NoDoc, charge |-> NoDoc,
   reply |-> NoDoc]
NoLogin ==
  [email |-> "", password |-> NoDoc, up |-> TRUE, outcome |-> "none",
   user |-> NoDoc, status |-> 0, body |-> "", token |-> Undefined,
   expires |-> 0, at |-> 0]
NoRegistration == [pc |-> "idle", dto |-> NoDoc]
\* A login is idle (none under way) or at compare: findOne has returned the
\* user and verifyUser awaits bcrypt.compare.
NoSignin == [pc |-> "idle", email |-> "", password |-> NoDoc, user |-> NoDoc]

NoCall ==
  [op |-> "none", filter |-> NoDoc, update |-> NoDoc, up |-> TRUE,
   outcome |-> "ok", result |-> NoDoc]

\* For create, update is the document the caller handed in.
Call(op, filterQuery, update, up, r) ==
  [op |-> op, filter |-> filterQuery, update |-> update, up |-> up,
   outcome |-> r.outcome, result |-> r.result]

NoUpdates ==
  [id |-> 0, base |-> NoDoc, first |-> NoDoc, firstFields |-> {},
   secondFields |-> {}, expected |-> NoDoc, stage |-> 0]

\* What two updates of a document are to leave: every field of the second
\* update, then every field of the first, then the fields the document had.
UnionOf(base, first, second) ==
  [f \in DOMAIN base \cup DOMAIN first \cup DOMAIN second |->
     IF f \in DOMAIN second THEN second[f]
     ELSE IF f \in DOMAIN first THEN first[f]
     ELSE base[f]]

Init ==
  /\ reservations = <<>>
  /\ nextOid = 1
  /\ last = NoCall
  /\ created = [i \in Oids |-> NoDoc]
  /\ twice = NoUpdates
  /\ req = [r \in Reqs |-> NoRequest]
  /\ users = <<>>
  /\ nextUid = 1
  /\ reg = [p \in RegProcs |-> NoRegistration]
  /\ now = 0
  /\ cookie = Undefined
  /\ login = NoLogin
  /\ signin = NoSignin
  /\ wire = [r \in Reqs |-> NoWire]
  /\ bill = NoBill
  /\ intents = <<>>
  /\ outbox = <<>>
  /\ mails = <<>>
  /\ pending = [c \in Callers |-> NoPending]

(***************************************************************************)
(* History of the calls, kept for the properties below.  A specification   *)
(* names the histories it keeps (obs); the others stay as they are.        *)
(***************************************************************************)
HitId(c) == c.result["_id"]

\* created[i] is what create returned for document i, until an update or a
\* delete hits that document.
ObserveCreated(c) ==
  IF c.outcome # "ok" THEN created
  ELSE IF c.op = "create"
  THEN [created EXCEPT ![HitId(c)] = c.result]
  ELSE IF c.op \in {"findOneAndUpdate", "findOneAndDelete"}
  THEN [created EXCEPT ![HitId(c)] = NoDoc]
  ELSE created

\* twice follows the updates of one document: its value before the first
\* update (base) and that update (first); when the next call that hits the
\* document is an update again, what the two updates are to leave (expected)
\* and the fields each of them set.
ObserveTwice(c) ==
  IF c.outcome # "ok" THEN twice
  ELSE IF c.op = "findOneAndUpdate"
  THEN IF twice.stage = 1 /\ twice.id = HitId(c)
       THEN [id |-> HitId(c), base |-> NoDoc, first |-> NoDoc,
             firstFields |-> twice.firstFields,
             secondFields |-> DOMAIN c.update,
             expected |-> UnionOf(twice.base, twice.first, c.update),
             stage |-> 2]
       ELSE [id |-> HitId(c),
             base |-> ModelFindOne(reservations, IdFilter(HitId(c))),
             first |-> c.update, firstFields |-> DOMAIN c.update,
             secondFields |-> {}, expected |-> NoDoc, stage |-> 1]
  ELSE IF c.op = "findOneAndDelete" /\ twice.id = HitId(c)
  THEN NoUpdates
  ELSE twice

Observe(obs, c) ==
  /\ last' = IF "last" \in obs THEN c ELSE last
  /\ created' = IF "created" \in obs THEN ObserveCreated(c) ELSE created
  /\ twice' = IF "twice" \in obs THEN ObserveTwice(c) ELSE twice

(***************************************************************************)
(* Calls of the reservations repository.                                   *)
(***************************************************************************)
Create(document, up, obs) ==
  /\ nextOid <= MaxDocs
  /\ LET r == RepoCreate(reservations, document, nextOid, up)
     IN /\ reservations' = r.store
        /\ Observe(obs, Call("create", NoDoc, document, up, r))
  /\ nextOid' = nextOid + 1
  /\ UNCHANGED pending

FindOne(filterQuery, up, obs) ==
  LET r == RepoFindOne(reservations, filterQuery, up)
  IN /\ reservations' = r.store
     /\ Observe(obs, Call("findOne", filterQuery, NoDoc, up, r))
     /\ UNCHANGED <<nextOid, pending>>

FindOneAndUpdate(filterQuery, update, up, obs) ==
  LET r == RepoFindOneAndUpdate(reservations, filterQuery, update, up)
  IN /\ reservations' = r.store
     /\ Observe(obs, Call("findOneAndUpdate", filterQuery, update, up, r))
     /\ UNCHANGED <<nextOid, pending>>

Find(filterQuery, up, obs) ==
  LET r == RepoFind(reservations, filterQuery, up)
  IN /\ reservations' = r.store
     /\ Observe(obs, Call("find", filterQuery, NoDoc, up, r))
     /\ UNCHANGED <<nextOid, pending>>

FindOneAndDelete(filterQuery, up, obs) ==
  LET r == RepoFindOneAndDelete(reservations, filterQuery, up)
  IN /\ reservations' = r.store
     /\ Observe(obs, Call("findOneAndDelete", filterQuery, NoDoc, up, r))
     /\ UNCHANGED <<nextOid, pending>>

\* The repository called on its own, the services standing still.
RepositoryCreate(document, up, obs) ==
  Create(document, up, obs) /\ UNCHANGED <<req, authVars, payVars>>

RepositoryFindOne(filterQuery, up, obs) ==
  FindOne(filterQuery, up, obs) /\ UNCHANGED <<req, authVars, payVars>>

RepositoryFindOneAndUpdate(filterQuery, update, up, obs) ==
  FindOneAndUpdate(filterQuery, update, up, obs) /\ UNCHANGED <<req, authVars, payVars>>

RepositoryFind(filterQuery, up, obs) ==
  Find(filterQuery, up, obs) /\ UNCHANGED <<req, authVars, payVars>>

RepositoryFindOneAndDelete(filterQuery, up, obs) ==
  FindOneAndDelete(filterQuery, up, obs) /\ UNCHANGED <<req, authVars, payVars>>

\* Any call with a filter of Filters, the store call completing or not.
RepoCalls(obs) ==
  \E up \in BOOLEAN :
    \/ \E document \in CreateInputs : RepositoryCreate(document, up, obs)
    \/ \E filterQuery \in Filters : RepositoryFindOne(filterQuery, up, obs)
    \/ \E filterQuery \in Filters, update \in Updates :
         RepositoryFindOneAndUpdate(filterQuery, update, up, obs)
    \/ \E filterQuery \in Filters : RepositoryFind(filterQuery, up, obs)
    \/ \E filterQuery \in Filters :
         RepositoryFindOneAndDelete(filterQuery, up, obs)

\* The repository with the last call on record.
NextRepo == RepoCalls({"last"})

SpecRepo == Init /\ [][NextRepo]_vars

\* The repository with what create returned and the last findOne on record.
NextCreated ==
  \E up \in BOOLEAN :
    \/ \E document \in CreateInputs :
         RepositoryCreate(document, up, {"created"})
    \/ \E filterQuery \in Filters :
         RepositoryFindOne(filterQuery, up, {"last", "created"})
    \/ \E filterQuery \in Filters, update \in Updates :
         RepositoryFindOneAndUpdate(filterQuery, update, up, {"created"})
    \/ \E filterQuery \in Filters :
         RepositoryFind(filterQuery, up, {"created"})
    \/ \E filterQuery \in Filters :
         RepositoryFindOneAndDelete(filterQuery, up, {"created"})

SpecCreated == Init /\ [][NextCreated]_vars

\* The repository with the updates of a document on record.
NextTwice == RepoCalls({"twice"})

SpecTwice == Init /\ [][NextTwice]_vars

\* Updates that name the _id.
IdUpdates == {("_id" :> i) : i \in Oids}

\* The repository with the last call on record, updates of the _id among
\* the calls.
NextIds ==
  \E up \in BOOLEAN :
    \/ \E document \in CreateInputs : RepositoryCreate(document, up, {"last"})
    \/ \E filterQuery \in Filters, update \in Updates \cup IdUpdates :
         RepositoryFindOneAndUpdate(filterQuery, update, up, {"last"})
    \/ \E filterQuery \in Filters :
         RepositoryFindOneAndDelete(filterQuery, up, {"last"})

SpecIds == Init /\ [][NextIds]_vars

(***************************************************************************)
(* findOneAndUpdate called by several callers at once.  A call is out at   *)
(* the store from the moment it is made until it returns; the store runs   *)
(* it at some moment in between, as one step.                              *)
(***************************************************************************)
\* A repository that reads the document when the call is made and saves the
\* changed copy later.
ModelFindOneAndUpdateReadThenSave(coll, call, up) ==
  IF ~up THEN Outcome(coll, "StoreError", NoDoc)
  ELSE IF call.seen = NoDoc THEN OrNotFound(coll, NoDoc)
  ELSE IF MatchIdx(coll, IdFilter(call.seen["_id"])) = {}
  THEN Outcome(coll, "StoreError", NoDoc)
  ELSE LET i == FirstIdx(coll, IdFilter(call.seen["_id"]))
           document == ApplySet(call.seen, call.update)
       IN OrNotFound([coll EXCEPT ![i] = document], document)

\* The one store call of findOneAndUpdate, run on the collection as it is.
ModelFindOneAndUpdate(coll, call, up) ==
  RepoFindOneAndUpdate(coll, call.filter, call.update, up)

\* The documents are stored before the callers start.
Seed(document) ==
  /\ \A c \in Callers : pending[c].pc = "idle"
  /\ RepositoryCreate(document, TRUE, {})

UpdateCall(c, filterQuery, update) ==
  /\ pending[c].pc = "idle"
  /\ pending' = [pending EXCEPT ![c] =
       [pc |-> "called", filter |-> filterQuery, update |-> update,
        seen |-> ModelFindOne(reservations, filterQuery),
        outcome |-> "none", id |-> 0]]
  /\ UNCHANGED <<reservations, nextOid, last, created, twice, req, authVars, payVars>>

UpdateReturn(c, up) ==
  /\ pending[c].pc = "called"
  /\ LET r == ModelFindOneAndUpdate(reservations, pending[c], up)
     IN /\ reservations' = r.store
        /\ pending' = [pending EXCEPT ![c] =
             [@ EXCEPT !.pc = "returned", !.outcome = r.outcome,
                       !.id = IF r.outcome = "ok" THEN r.result["_id"] ELSE 0]]
  /\ UNCHANGED <<nextOid, last, created, twice, req, authVars, payVars>>

\* Documents are stored, then each caller makes one call on a document by
\* its _id, the calls overlapping in every way.
NextConcurrent ==
  \/ \E document \in [RepoFields -> Dates] : Seed(document)
  \/ \E c \in Callers, id \in Oids, update \in Updates :
       UpdateCall(c, IdFilter(id), update)
  \/ \E c \in Callers, up \in BOOLEAN : UpdateReturn(c, up)

SpecConcurrent == Init /\ [][NextConcurrent]_vars

(***************************************************************************)
(* The guarded reservations service: requests, the guard, the handlers.    *)
(***************************************************************************)
SampleCreds ==
  {Undefined, EmptyString, Jwt(1, 1, JwtSecret), Jwt(2, 1, OtherSecret)}
MaybeHolding == {Absent} \cup {Holding(v) : v \in SampleCreds}
SampleUsers ==
  {[_id |-> i, email |-> "a@x.io", password |-> Hash(Plain("secret"))] :
     i \in 1..2}
SampleReplies ==
  {OkReply(u, 0) : u \in SampleUsers}
    \cup {ErrorReply(e, 0) : e \in {"Unauthorized", "Unavailable"}}
CreateDto == [startDate |-> 1, endDate |-> 2]
UpdateDto == [endDate |-> 1]

\* A request comes in.
Arrive(r, cookies, field, headers) ==
  /\ req[r].pc = "idle"
  /\ req' = [req EXCEPT ![r] = NewRequest(cookies, field, headers)]
  /\ UNCHANGED <<repoVars, authVars, payVars>>

\* A guard that holds a request back while the call of another is out.
CanActivateOneAtATime(r) ==
  /\ req[r].pc = "guard"
  /\ \A other \in Reqs : req[other].pc # "await"
  /\ req' = [req EXCEPT ![r] = GuardCanActivate(@)]
  /\ UNCHANGED <<repoVars, authVars, payVars>>

\* The guard runs up to its return.
CanActivate(r) ==
  /\ req[r].pc = "guard"
  /\ req' = [req EXCEPT ![r] = GuardCanActivate(@)]
  /\ UNCHANGED <<repoVars, authVars, payVars>>

\* The 'authenticate' call of the request ends with a value or an error and
\* the pipe runs.
Replied(r, reply) ==
  /\ req[r].pc = "await"
  /\ req' = [req EXCEPT ![r] = GuardPipe(@, reply)]
  /\ UNCHANGED <<repoVars, authVars, payVars>>

\* The route's handler may start: behind the guard once the guard admitted
\* the request, without a guard as soon as the request is in.
HandlerOpen(q, endpoint) ==
  /\ q.handler = "none"
  /\ IF UseGuards(endpoint)
     THEN q.pc = "decided" /\ q.decision = "Admitted"
     ELSE q.pc = "guard"

Handled(q, endpoint) == [q EXCEPT !.pc = "handled", !.handler = endpoint]

ReservationsCreate(r, createReservationDto, up, obs) ==
  /\ HandlerOpen(req[r], "create")
  /\ Create(("userId" :> req[r].user["_id"]) @@ ("timestamp" :> now)
              @@ createReservationDto, up, obs)
  /\ req' = [req EXCEPT ![r] = Handled(@, "create")]
  /\ UNCHANGED <<authVars, payVars>>

ReservationsFindAll(r, up, obs) ==
  /\ HandlerOpen(req[r], "findAll")
  /\ Find(EmptyFilter, up, obs)
  /\ req' = [req EXCEPT ![r] = Handled(@, "findAll")]
  /\ UNCHANGED <<authVars, payVars>>

ReservationsFindOne(r, id, up, obs) ==
  /\ HandlerOpen(req[r], "findOne")
  /\ FindOne(IdFilter(id), up, obs)
  /\ req' = [req EXCEPT ![r] = Handled(@, "findOne")]
  /\ UNCHANGED <<authVars, payVars>>

ReservationsUpdate(r, id, updateReservationDto, up, obs) ==
  /\ HandlerOpen(req[r], "update")
  /\ FindOneAndUpdate(IdFilter(id), updateReservationDto, up, obs)
  /\ req' = [req EXCEPT ![r] = Handled(@, "update")]
  /\ UNCHANGED <<authVars, payVars>>

ReservationsRemove(r, id, up, obs) ==
  /\ HandlerOpen(req[r], "remove")
  /\ FindOneAndDelete(IdFilter(id), up, obs)
  /\ req' = [req EXCEPT ![r] = Handled(@, "remove")]
  /\ UNCHANGED <<authVars, payVars>>

\* The response goes out (403 for a rejected request) and the slot is free.
Respond(r) ==
  /\ \/ req[r].pc = "handled"
     \/ req[r].pc = "decided" /\ req[r].decision = "Rejected"
  /\ req' = [req EXCEPT ![r] = NoRequest]
  /\ UNCHANGED <<repoVars, authVars, payVars>>

\* One request through the guard, its credential locations holding any of
\* SampleCreds or missing, the authority answering anything.
NextExtract ==
  \/ \E cookies \in MaybeHolding, field \in SampleCreds,
        headers \in MaybeHolding : Arrive(1, cookies, field, headers)
  \/ CanActivate(1)
  \/ \E reply \in SampleReplies : Replied(1, reply)

SpecExtract == Init /\ [][NextExtract]_vars

\* Requests, one at a time, with a cookie of SampleCreds through the guard
\* and the handlers, the authority answering anything.
NextGuard ==
  \E r \in {1} :
    \/ \E v \in SampleCreds :
         Arrive(r, Holding(v), Undefined, Holding(Undefined))
    \/ CanActivate(r)
    \/ \E reply \in SampleReplies : Replied(r, reply)
    \/ \E up \in BOOLEAN : ReservationsCreate(r, CreateDto, up, {})
    \/ \E up \in BOOLEAN : ReservationsFindAll(r, up, {})
    \/ \E id \in 1..(MaxDocs + 1), up \in BOOLEAN :
         ReservationsFindOne(r, id, up, {})
    \/ \E id \in 1..(MaxDocs + 1), up \in BOOLEAN :
         ReservationsUpdate(r, id, UpdateDto, up, {})
    \/ \E id \in 1..(MaxDocs + 1), up \in BOOLEAN :
         ReservationsRemove(r, id, up, {})
    \/ Respond(r)

SpecGuard == Init /\ [][NextGuard]_vars

(***************************************************************************)
(* The auth service: registration, login, and 'authenticate' as the        *)
(* authority of the guard.                                                 *)
(***************************************************************************)
Emails == {"a@x.io", "b@x.io"}
CreateUserDtos == {[email |-> e, password |-> Plain("secret")] : e \in Emails}
LoginPasswords == {Plain("secret"), Plain("wrong")}

\* UsersService.register up to the end of validateCreateUserDto: a user
\* found is a 422; findOne throwing, whatever the error, lets it continue.
RegisterValidate(p, createUser, up) ==
  /\ reg[p].pc = "idle"
  /\ nextUid <= MaxDocs
  /\ LET r == RepoFindOne(users, [email |-> createUser.email], up)
     IN reg' = IF r.outcome = "ok" THEN reg
               ELSE [reg EXCEPT ![p] = [pc |-> "create", dto |-> createUser]]
  /\ UNCHANGED <<repoVars, req, users, nextUid, now, cookie, login, signin,
                 wire, payVars>>

\* UsersService.register from bcrypt.hash on.
RegisterCreate(p, up) ==
  /\ reg[p].pc = "create"
  /\ nextUid <= MaxDocs
  /\ LET r == RepoCreate(users,
                         [email |-> reg[p].dto.email,
                          password |-> Hash(reg[p].dto.password)],
                         nextUid, up)
     IN users' = r.store
  /\ nextUid' = nextUid + 1
  /\ reg' = [reg EXCEPT ![p] = NoRegistration]
  /\ UNCHANGED <<repoVars, req, now, cookie, login, signin, wire, payVars>>

\* POST /auth/login up to the end of `await this.usersRepository.findOne`
\* in verifyUser: the users collection is read.  When findOne throws, the
\* login ends with the 401 of LocalStrategy.validate; with a user found,
\* verifyUser goes on to await bcrypt.compare and other callbacks run.
LoginFindOne(email, password, up, obs) ==
  /\ signin.pc = "idle"
  /\ LET found == RepoFindOne(users, [email |-> email], up)
         v == LocalStrategyValidate(found, password)
     IN IF found.outcome = "ok"
        THEN /\ signin' = [pc |-> "compare", email |-> email,
                           password |-> password, user |-> found.result]
             /\ UNCHANGED login
        ELSE /\ login' = IF "login" \in obs
                         THEN [email |-> email, password |-> password,
                               up |-> up, outcome |-> v.outcome,
                               user |-> v.user, status |-> v.status,
                               body |-> v.body, token |-> Undefined,
                               expires |-> 0, at |-> now]
                         ELSE login
             /\ UNCHANGED signin
  /\ UNCHANGED <<repoVars, req, users, nextUid, reg, now, cookie, wire,
                 payVars>>

\* bcrypt.compare of the password with the hash of the user found has ended
\* and the login goes on without another await on anything but itself: a
\* password that does not compare is the 401 of LocalStrategy.validate; else
\* AuthController.login has AuthService.login read the clock, sign a token
\* for the user and set it as the Authentication cookie, and sends the user.
LoginCompare(obs) ==
  /\ signin.pc = "compare"
  /\ LET v == LocalStrategyValidate(Outcome(<<>>, "ok", signin.user),
                                    signin.password)
         set == IF v.outcome = "ok" THEN AuthLogin(v.user, now)
                ELSE [token |-> Undefined, expires |-> 0]
     IN /\ cookie' = IF v.outcome = "ok" THEN set.token ELSE cookie
        /\ login' = IF "login" \in obs
                    THEN [email |-> signin.email,
                          password |-> signin.password, up |-> TRUE,
                          outcome |-> v.outcome, user |-> v.user,
                          status |-> v.status, body |-> v.body,
                          token |-> set.token, expires |-> set.expires,
                          at |-> now]
                    ELSE login
  /\ signin' = NoSignin
  /\ UNCHANGED <<repoVars, req, users, nextUid, reg, now, wire, payVars>>

Tick ==
  /\ now < MaxTime
  /\ now' = now + 1
  /\ UNCHANGED <<repoVars, req, users, nextUid, reg, cookie, login, signin,
                 wire, payVars>>

\* The auth service takes up the 'authenticate' message: the JwtAuthGuard
\* of the auth service extracts the token and verifies it against the clock.
\* A token that fails is answered at once; for one that passes, validate
\* goes on to look the user up.
AuthVerify(r) ==
  /\ req[r].pc = "await"
  /\ wire[r].stage = "none"
  /\ LET message == Message(req[r].sent)
         x == JwtFromRequest(message)
     IN wire' = [wire EXCEPT ![r] =
                   IF x.threw \/ ~VerifyJwt(x.jwt, JwtSecret, now)
                   THEN [stage |-> "answered", at |-> now,
                         reply |-> AuthAuthenticate(message, users, now, TRUE)]
                   ELSE [stage |-> "verified", at |-> now, reply |-> NoReply]]
  /\ UNCHANGED <<repoVars, req, users, nextUid, reg, now, cookie, login, signin,
                 payVars>>

\* A validate that also issues a new token to the client when it finds the
\* user.
AuthValidateRefreshing(r, up) ==
  /\ req[r].pc = "await"
  /\ wire[r].stage = "verified"
  /\ LET reply ==
           AuthAuthenticate(Message(req[r].sent), users, wire[r].at, up)
     IN /\ wire' = [wire EXCEPT ![r] = [stage |-> "answered", at |-> @.at,
                                        reply |-> reply]]
        /\ cookie' = IF reply.status = "ok"
                     THEN Sign(reply.user["_id"], now)
                     ELSE cookie
  /\ UNCHANGED <<repoVars, req, users, nextUid, reg, now, login, signin,
                 payVars>>

\* JwtStrategy.validate of the verified token: the user is looked up in the
\* users collection as it is now, and authenticate returns it; the answer
\* is on its way to the guard.
AuthValidate(r, up) ==
  /\ req[r].pc = "await"
  /\ wire[r].stage = "verified"
  /\ wire' = [wire EXCEPT ![r] =
                [stage |-> "answered", at |-> @.at,
                 reply |-> AuthAuthenticate(Message(req[r].sent), users,
                                            @.at, up)]]
  /\ UNCHANGED <<repoVars, req, users, nextUid, reg, now, cookie, login, signin,
                 payVars>>

\* A guard that keeps one subscription for all requests: the answer to one
\* call runs the pipe of every request whose call is out.
DeliveredToAll(r) ==
  /\ req[r].pc = "await"
  /\ wire[r].stage = "answered"
  /\ req' = [x \in Reqs |-> IF req[x].pc = "await"
                             THEN GuardPipe(req[x], wire[r].reply)
                             ELSE req[x]]
  /\ wire' = [x \in Reqs |-> IF req[x].pc = "await" THEN NoWire ELSE wire[x]]
  /\ UNCHANGED <<repoVars, users, nextUid, reg, now, cookie, login, signin,
                 payVars>>

\* The answer of the auth service reaches the guard of the request and the
\* pipe runs.
Delivered(r) ==
  /\ req[r].pc = "await"
  /\ wire[r].stage = "answered"
  /\ req' = [req EXCEPT ![r] = GuardPipe(@, wire[r].reply)]
  /\ wire' = [wire EXCEPT ![r] = NoWire]
  /\ UNCHANGED <<repoVars, users, nextUid, reg, now, cookie, login, signin,
                 payVars>>

\* The call fails on the way: the guard gets a transport error, and whatever
\* the auth service answers to the call is dropped.
Unavailable(r) ==
  /\ req[r].pc = "await"
  /\ req' = [req EXCEPT ![r] = GuardPipe(@, ErrorReply("Unavailable", now))]
  /\ wire' = [wire EXCEPT ![r] = NoWire]
  /\ UNCHANGED <<repoVars, users, nextUid, reg, now, cookie, login, signin,
                 payVars>>

\* What a client can put in its cookie: nothing, a string that is no token,
\* the token it got at login, that token signed with another key.
Forge(token) == [token EXCEPT !.sig = OtherSecret]
ClientCreds ==
  {Undefined, Garbage}
    \cup (IF cookie.kind = "jwt" THEN {cookie, Forge(cookie)} ELSE {})

\* The client sends a request with its cookie set to one of these.
ClientRequest(r) ==
  \E v \in ClientCreds : Arrive(r, Holding(v), Undefined, Holding(Undefined))

\* The two services together and the clock: users register and log in, and
\* one request at a time goes through the guard to the auth service.
NextSystem ==
  \/ \E createUser \in CreateUserDtos, up \in BOOLEAN :
       RegisterValidate(1, createUser, up)
  \/ \E up \in BOOLEAN : RegisterCreate(1, up)
  \/ \E email \in Emails, password \in LoginPasswords, up \in BOOLEAN :
       LoginFindOne(email, password, up, {})
  \/ LoginCompare({})
  \/ Tick
  \/ ClientRequest(1)
  \/ CanActivate(1)
  \/ AuthVerify(1)
  \/ \E up \in BOOLEAN : AuthValidate(1, up)
  \/ Delivered(1)
  \/ Unavailable(1)
  \/ \E up \in BOOLEAN : ReservationsFindAll(1, up, {})
  \/ Respond(1)

SpecSystem == Init /\ [][NextSystem]_vars

\* The auth service alone with the last login on record: one registration
\* at a time, logins, and the clock.
NextUsers ==
  \/ \E createUser \in CreateUserDtos, up \in BOOLEAN :
       RegisterValidate(1, createUser, up)
  \/ \E up \in BOOLEAN : RegisterCreate(1, up)
  \/ \E email \in Emails, password \in LoginPasswords, up \in BOOLEAN :
       LoginFindOne(email, password, up, {"login"})
  \/ LoginCompare({"login"})
  \/ Tick

SpecUsers == Init /\ [][NextUsers]_vars

\* Registrations served at once, the store answering every call, logins,
\* and the clock.
NextRace ==
  \/ \E p \in RegProcs, createUser \in CreateUserDtos :
       RegisterValidate(p, createUser, TRUE)
  \/ \E p \in RegProcs : RegisterCreate(p, TRUE)
  \/ \E email \in Emails, password \in LoginPasswords :
       LoginFindOne(email, password, TRUE, {})
  \/ LoginCompare({})
  \/ Tick

SpecRace == Init /\ [][NextRace]_vars

\* A stored user is removed from the users collection.
RemoveUser(email) ==
  /\ LET r == RepoFindOneAndDelete(users, [email |-> email], TRUE)
     IN /\ r.outcome = "ok"
        /\ users' = r.store
  /\ UNCHANGED <<repoVars, req, nextUid, reg, now, cookie, login, signin,
                 wire, payVars>>

\* The client sends a request with the token it got at login.
TokenRequest(r) ==
  /\ cookie.kind = "jwt"
  /\ Arrive(r, Holding(cookie), Undefined, Holding(Undefined))

\* Several requests in flight at once: users register and log in and the
\* user a@x.io is removed, the store answering every call, and each request
\* goes through the guard to the auth service on its own.
NextFlight ==
  \/ \E createUser \in CreateUserDtos : RegisterValidate(1, createUser, TRUE)
  \/ RegisterCreate(1, TRUE)
  \/ \E email \in Emails : LoginFindOne(email, Plain("secret"), TRUE, {})
  \/ LoginCompare({})
  \/ RemoveUser("a@x.io")
  \/ \E r \in Reqs : TokenRequest(r)
  \/ \E r \in Reqs : CanActivate(r)
  \/ \E r \in Reqs : AuthVerify(r)
  \/ \E r \in Reqs : AuthValidate(r, TRUE)
  \/ \E r \in Reqs : Delivered(r)
  \/ \E r \in Reqs : Respond(r)

SpecFlight == Init /\ [][NextFlight]_vars

\* The same with the guard's own steps scheduled: a request that is in is
\* run through canActivate, the pipe runs on an answer that has come, and a
\* decided or handled request is answered.  Whether the auth service takes
\* the call up and answers it is the auth service's affair; canActivate sets
\* no timeout on it.
SpecFlightFair ==
  /\ SpecFlight
  /\ \A r \in Reqs :
       WF_vars(CanActivate(r)) /\ WF_vars(Delivered(r)) /\ WF_vars(Respond(r))

(***************************************************************************)
(* Billing: the reservations service charges through the payments service  *)
(* before it stores a reservation, and the payments service has the        *)
(* notifications service mail the user.                                    *)
(***************************************************************************)
MaxCharges == 2
Amounts == {1, 2}
Identities ==
  {[_id |-> 1, email |-> "a@x.io"], [_id |-> 2, email |-> "b@x.io"]}

\* amount * 100, the amount of the payment intent.
IntentAmount(amount) == amount * 100

\* `Your payments of ${amount} has completed successfully`
Text(amount) == [template |-> "payments completed", amount |-> amount]

\* A create that stores the reservation at once and bills afterwards.
ReservationsCreateThenBill(createReservationDto, amount, user) ==
  /\ bill.pc = "idle"
  /\ Create(("userId" :> user["_id"]) @@ ("timestamp" :> now)
              @@ ("invoiceId" :> 0) @@ createReservationDto, TRUE, {})
  /\ bill' = [pc |-> "charging", dto |-> createReservationDto, user |-> user,
              charge |-> [amount |-> amount, email |-> user.email],
              reply |-> NoDoc]
  /\ UNCHANGED <<req, authVars, intents, outbox, mails>>

\* ReservationsService.create up to the send: 'create_charge' goes out with
\* the charge of the dto and the email of the user.
ReservationsCreateBilled(createReservationDto, amount, user) ==
  /\ bill.pc = "idle"
  /\ bill' = [pc |-> "charging", dto |-> createReservationDto, user |-> user,
              charge |-> [amount |-> amount, email |-> user.email],
              reply |-> NoDoc]
  /\ UNCHANGED <<repoVars, req, authVars, intents, outbox, mails>>

\* A createCharge that goes on when stripe refuses, with an intent that was
\* never created.
StripePaymentIntentsCreateUnchecked(paid) ==
  /\ bill.pc = "charging"
  /\ paid => Len(intents) < MaxCharges
  /\ LET paymentIntent ==
           [id |-> IF paid THEN Len(intents) + 1 ELSE 0,
            amount |-> IntentAmount(bill.charge.amount)]
     IN /\ intents' = IF paid THEN Append(intents, paymentIntent) ELSE intents
        /\ bill' = [bill EXCEPT !.pc = "intent", !.reply = paymentIntent]
  /\ UNCHANGED <<repoVars, req, authVars, outbox, mails>>

\* PaymentsService.createCharge takes 'create_charge' and awaits
\* stripe.paymentIntents.create for amount * 100: stripe creates the payment
\* intent and createCharge is still to go on; when stripe refuses, the await
\* throws, nothing is emitted and the call and the create end with an error.
StripePaymentIntentsCreate(paid) ==
  /\ bill.pc = "charging"
  /\ paid => Len(intents) < MaxCharges
  /\ IF paid
     THEN LET paymentIntent ==
                [id |-> Len(intents) + 1,
                 amount |-> IntentAmount(bill.charge.amount)]
          IN /\ intents' = Append(intents, paymentIntent)
             /\ bill' = [bill EXCEPT !.pc = "intent", !.reply = paymentIntent]
     ELSE /\ bill' = NoBill
          /\ UNCHANGED intents
  /\ UNCHANGED <<repoVars, req, authVars, outbox, mails>>

\* createCharge goes on after the await: 'notify-email' is emitted with the
\* email of the charge and the text for its amount, and the payment intent
\* is returned as the answer to 'create_charge'.
CreateChargeEmit ==
  /\ bill.pc = "intent"
  /\ outbox' = Append(outbox, [email |-> bill.charge.email,
                               text |-> Text(bill.charge.amount)])
  /\ bill' = [bill EXCEPT !.pc = "charged"]
  /\ UNCHANGED <<repoVars, req, authVars, intents, mails>>

\* The map of ReservationsService.create runs on the answer: the reservation
\* is handed to the repository with the id of the intent and of the user.
ReservationsPersist(up) ==
  /\ bill.pc = "charged"
  /\ Create(("userId" :> bill.user["_id"]) @@ ("timestamp" :> now)
              @@ ("invoiceId" :> bill.reply.id) @@ bill.dto, up, {})
  /\ bill' = NoBill
  /\ UNCHANGED <<req, authVars, intents, outbox, mails>>

\* NotificationsController.notifyEmail receives the oldest event and
\* NotificationsService.notifyEmail calls sendMail.
NotifyEmail ==
  /\ outbox # <<>>
  /\ mails' = Append(mails, [to |-> Head(outbox).email,
                             subject |-> "Microservices Notification",
                             text |-> Head(outbox).text])
  /\ outbox' = Tail(outbox)
  /\ UNCHANGED <<repoVars, req, authVars, bill, intents>>

\* Reservations are created for either user and any amount, the payment
\* going through or not, the store up or down.
NextBilling ==
  \/ \E amount \in Amounts, user \in Identities :
       ReservationsCreateBilled(CreateDto, amount, user)
  \/ \E paid \in BOOLEAN : StripePaymentIntentsCreate(paid)
  \/ CreateChargeEmit
  \/ \E up \in BOOLEAN : ReservationsPersist(up)
  \/ NotifyEmail

SpecBilling == Init /\ [][NextBilling]_vars

(***************************************************************************)
(* Properties of the guard.                                                *)
(***************************************************************************)
\* The three credential locations of a request in the order of precedence,
\* and the ones that hold a credential (neither missing nor empty).
Locations(q) == <<Opt(q.cookies), q.Authentication, Opt(q.headers)>>
NonEmpty(q) ==
  {i \in 1..3 : Locations(q)[i].kind \notin {"undefined", "empty"}}
PastGuard(q) == q.pc \notin {"idle", "guard"}

\* C1: a request whose Authentication cookie, request field and header are
\* all missing or empty ends Rejected when the guard has run, and no
\* 'authenticate' call is sent for it, then or later.
C1_NoCredentialRejected ==
  \A r \in Reqs :
    (PastGuard(req[r]) /\ NonEmpty(req[r]) = {}) =>
      /\ req[r].pc = "decided"
      /\ req[r].decision = "Rejected"
      /\ req[r].calls = 0
      /\ req[r].reply = NoReply

\* A request with an empty cookie, an undefined field and no headers object
\* was rejected without a call.
C1_Witness ==
  /\ req[1].cookies = Holding(EmptyString)
  /\ req[1].Authentication = Undefined
  /\ req[1].headers = Absent
  /\ req[1].decision = "Rejected"
  /\ req[1].calls = 0

\* C2: a request is Admitted only when its 'authenticate' call ended with a
\* value, and then that value is the request's user; when the call ended
\* with an error the request is Rejected; and a request that is not Admitted
\* has no user attached.
C2_AdmittedByAuthority ==
  \A r \in Reqs :
    /\ req[r].decision = "Admitted" =>
         /\ req[r].reply.status = "ok"
         /\ req[r].user = req[r].reply.user
    /\ req[r].reply.status = "error" => req[r].decision = "Rejected"
    /\ req[r].decision # "Admitted" => req[r].user = NoDoc

\* A request was admitted with the user the authority returned.
C2_Witness ==
  /\ req[1].decision = "Admitted"
  /\ req[1].reply.status = "ok"
  /\ req[1].user \in SampleUsers
  /\ req[1].user = req[1].reply.user

\* C3: a handler of the reservations controller has run for a request only
\* if the guard admitted that request, a rejected request never gets a
\* handler, and every step that changes the reservations collection is the
\* step of a handler starting for an admitted request.
C3_HandlerAfterAdmitted ==
  [][/\ \A r \in Reqs :
          /\ req'[r].handler # "none" => req'[r].decision = "Admitted"
          /\ req[r].decision = "Rejected" => req'[r].handler = "none"
     /\ (reservations' # reservations \/ nextOid' # nextOid) =>
          \E r \in Reqs :
            /\ req[r].decision = "Admitted"
            /\ req[r].handler = "none"
            /\ req'[r].handler \in Endpoints]_vars

\* The update handler ran for an admitted request and changed a document.
C3_Witness ==
  /\ req[1].handler = "update"
  /\ req[1].decision = "Admitted"
  /\ reservations # <<>>
  /\ reservations[1]["endDate"] = UpdateDto.endDate

\* The 'authenticate' call of the request was answered by the auth service.
AnsweredByAuthority(q) ==
  q.reply.status # "none" /\ q.reply.error # "Unavailable"

\* C4: when the auth service answers for a token that is expired at that
\* time or signed with a key other than JWT_SECRET, the answer is the error
\* Unauthorized and the request is Rejected; a request is Admitted only with
\* a token signed with JWT_SECRET and answered for before its expiry.
C4_ExpiredOrForgedRejected ==
  \A r \in Reqs :
    LET q == req[r]
    IN /\ (/\ AnsweredByAuthority(q)
           /\ q.sent.kind = "jwt"
           /\ (q.sent.exp <= q.reply.at \/ q.sent.sig # JwtSecret)) =>
             /\ q.reply.status = "error"
             /\ q.reply.error = "Unauthorized"
             /\ q.decision = "Rejected"
       /\ q.decision = "Admitted" =>
             /\ q.sent.kind = "jwt"
             /\ q.sent.sig = JwtSecret
             /\ q.reply.at < q.sent.exp

\* The token the client got at login, sent after its expiry, was answered
\* Unauthorized and the request rejected.
C4_Witness ==
  /\ req[1].sent = cookie
  /\ cookie.kind = "jwt"
  /\ cookie.sig = JwtSecret
  /\ cookie.exp <= req[1].reply.at
  /\ req[1].reply.error = "Unauthorized"
  /\ req[1].decision = "Rejected"

\* C5: when at least one location holds a credential, the credential sent to
\* the authority is the one in the first such location, in the order cookie,
\* request field, header.
C5_FirstNonEmptySent ==
  \A r \in Reqs :
    (PastGuard(req[r]) /\ NonEmpty(req[r]) # {}) =>
      /\ req[r].calls >= 1
      /\ \E i \in NonEmpty(req[r]) :
           /\ \A j \in NonEmpty(req[r]) : i <= j
           /\ req[r].sent = Locations(req[r])[i]

\* The cookie is empty, field and header hold different tokens, and the
\* field's was sent.
C5_Witness ==
  /\ req[1].cookies = Holding(EmptyString)
  /\ req[1].Authentication = Jwt(1, 1, JwtSecret)
  /\ req[1].headers = Holding(Jwt(2, 1, OtherSecret))
  /\ req[1].sent = Jwt(1, 1, JwtSecret)
  /\ req[1].calls = 1

\* C6: no request has more than one 'authenticate' call sent for it, and a
\* request whose call ended with an error is Rejected with that one call, no
\* other call being out.
C6_OneCallNoRetry ==
  \A r \in Reqs :
    /\ req[r].calls <= 1
    /\ req[r].reply.status = "error" =>
         /\ req[r].pc # "await"
         /\ req[r].decision = "Rejected"
         /\ req[r].calls = 1

\* The one call of a request failed with the authority unreachable and the
\* request is rejected.
C6_Witness ==
  /\ req[1].reply.error = "Unavailable"
  /\ req[1].decision = "Rejected"
  /\ req[1].pc = "decided"
  /\ req[1].calls = 1

(***************************************************************************)
(* Properties of the repository.                                           *)
(***************************************************************************)

\* C7: a document that create returned is found by findOne on the returned
\* _id, equal to what create returned, whatever calls hit other documents,
\* as long as no update or delete hit that document.
C7_RoundTrip ==
  \A i \in Oids :
    created[i] # NoDoc =>
      LET r == RepoFindOne(reservations, IdFilter(created[i]["_id"]), TRUE)
      IN r.outcome = "ok" /\ r.result = created[i]

\* The first document is stored as create returned it; the second was
\* created too and then hit by an update or a delete.
C7_Witness ==
  /\ nextOid > 2
  /\ created[1] # NoDoc
  /\ created[2] = NoDoc
  /\ reservations # <<>>
  /\ ModelFindOne(reservations, IdFilter(1)) = created[1]
  /\ ModelFindOne(reservations, IdFilter(2)) # NewDocument(created[1], 2)

LookupOps == {"findOne", "findOneAndUpdate", "findOneAndDelete"}

\* C8: findOne, findOneAndUpdate and findOneAndDelete end NotFound exactly
\* when the store call completes and no stored document matches the filter,
\* and then the collection is as it was; a store call that throws ends
\* StoreError, never NotFound, and changes nothing either.
C8_NotFoundExactly ==
  [][last'.op \in LookupOps =>
       /\ (last'.outcome = "NotFound") <=>
            (last'.up /\ MatchIdx(reservations, last'.filter) = {})
       /\ (last'.outcome = "NotFound") => (reservations' = reservations)
       /\ ~last'.up =>
            (last'.outcome = "StoreError" /\ reservations' = reservations)]_vars

\* An update that matched none of the stored documents ended NotFound.
C8_Witness ==
  /\ last.op = "findOneAndUpdate"
  /\ last.outcome = "NotFound"
  /\ reservations # <<>>

\* C9: find returns the stored documents that match the filter, each once and
\* no other, and an empty sequence when none matches; it ends NotFound never.
C9_FindExact ==
  (last.op = "find" /\ last.up) =>
    /\ last.outcome = "ok"
    /\ \A i \in 1..Len(reservations) :
         Matches(reservations[i], last.filter) <=>
           (\E j \in 1..Len(last.result) : last.result[j] = reservations[i])
    /\ Len(last.result) = Cardinality(MatchIdx(reservations, last.filter))

\* A find whose filter matches none of the stored documents returned <<>>.
C9_Witness ==
  /\ last.op = "find"
  /\ last.outcome = "ok"
  /\ last.result = <<>>
  /\ reservations # <<>>

\* C10: after two updates of the same document (no other call hitting it in
\* between) the document has, for each field, the value of the second update
\* if that sets it, else of the first if that sets it, else the value it had
\* before the first update.
C10_UpdatesUnion ==
  twice.stage = 2 =>
    ModelFindOne(reservations, IdFilter(twice.id)) = twice.expected

\* Two updates were applied to a document; the first set a field the second
\* left alone and a field the second set again.
C10_Witness ==
  /\ twice.stage = 2
  /\ ModelFindOne(reservations, IdFilter(twice.id)) = twice.expected
  /\ twice.firstFields \ twice.secondFields # {}
  /\ twice.firstFields \cap twice.secondFields # {}

\* C11: a findOneAndUpdate that succeeds returns the document it changed as
\* it is after the update: the fields of the update have the new values, the
\* other fields of that document, its _id among them, are as before, and the
\* other documents of the collection are as before.
C11_UpdateFrame ==
  [][(last'.op = "findOneAndUpdate" /\ last'.outcome = "ok") =>
       LET i == FirstIdx(reservations, last'.filter)
           old == reservations[i]
           new == last'.result
       IN /\ Len(reservations') = Len(reservations)
          /\ reservations'[i] = new
          /\ DOMAIN new = DOMAIN old \cup DOMAIN last'.update
          /\ \A f \in DOMAIN last'.update : new[f] = last'.update[f]
          /\ \A f \in DOMAIN old \ DOMAIN last'.update : new[f] = old[f]
          /\ new["_id"] = old["_id"]
          /\ \A j \in 1..Len(reservations) :
               j # i => reservations'[j] = reservations[j]]_vars

\* The second of two documents was updated in its endDate alone and returned
\* with the new endDate; the first document differs from it.
C11_Witness ==
  /\ last.op = "findOneAndUpdate"
  /\ last.outcome = "ok"
  /\ DOMAIN last.update = {"endDate"}
  /\ Len(reservations) = 2
  /\ last.result = reservations[2]
  /\ last.result["endDate"] = last.update["endDate"]
  /\ last.result["startDate"] # last.update["endDate"]
  /\ reservations[1]["endDate"] # last.update["endDate"]

\* C12, as the specification states it: after a findOneAndDelete that
\* succeeded, findOne with the same filter ends NotFound.
C12_DeleteThenNotFound ==
  (last.op = "findOneAndDelete" /\ last.outcome = "ok") =>
    RepoFindOne(reservations, last.filter, TRUE).outcome = "NotFound"

\* C12, amended: a findOneAndDelete that succeeds returns the first match as
\* it was and removes that document alone, so findOne by its _id ends
\* NotFound; findOne with the same filter ends NotFound exactly when the
\* filter matched no other document.
C12_DeleteRemovesOne ==
  [][(last'.op = "findOneAndDelete" /\ last'.outcome = "ok") =>
       LET i == FirstIdx(reservations, last'.filter)
       IN /\ last'.result = reservations[i]
          /\ Len(reservations') = Len(reservations) - 1
          /\ \A j \in 1..Len(reservations) :
               j # i => \E k \in 1..Len(reservations') :
                          reservations'[k] = reservations[j]
          /\ RepoFindOne(reservations', IdFilter(last'.result["_id"]),
                         TRUE).outcome = "NotFound"
          /\ (RepoFindOne(reservations', last'.filter, TRUE).outcome
                = "NotFound")
               <=> (MatchIdx(reservations, last'.filter) = {i})]_vars

\* One of two documents was deleted by its _id; the other is still stored
\* and findOne with the filter of the delete ends NotFound.
C12_Witness ==
  /\ last.op = "findOneAndDelete"
  /\ last.outcome = "ok"
  /\ last.filter = IdFilter(last.result["_id"])
  /\ Len(reservations) = 1
  /\ RepoFindOne(reservations, last.filter, TRUE).outcome = "NotFound"

\* C13: when two overlapping findOneAndUpdate calls on one document have
\* both succeeded, the document is what applying the two updates one after
\* the other, in one of the two orders, to the document the first of them
\* found leaves; a field that only one of the updates names has that update's
\* value.
C13_UpdatesSerialize ==
  (/\ \A c \in Callers : pending[c].pc = "returned" /\ pending[c].outcome = "ok"
   /\ pending[1].id = pending[2].id) =>
    LET final == ModelFindOne(reservations, IdFilter(pending[1].id))
    IN /\ \E a, b \in Callers :
            /\ a # b
            /\ final = ApplySet(ApplySet(pending[a].seen, pending[a].update),
                                pending[b].update)
       /\ \A a, b \in Callers :
            a # b =>
              \A f \in DOMAIN pending[a].update \ DOMAIN pending[b].update :
                final[f] = pending[a].update[f]

\* Both calls were made on the same document before either returned, they
\* name different fields, and the document has both new values.
C13_Witness ==
  /\ \A c \in Callers : pending[c].pc = "returned" /\ pending[c].outcome = "ok"
  /\ pending[1].id = pending[2].id
  /\ pending[1].seen = pending[2].seen
  /\ DOMAIN pending[1].update = {"startDate"}
  /\ DOMAIN pending[2].update = {"endDate"}
  /\ pending[1].seen["startDate"] # pending[1].update["startDate"]
  /\ pending[2].seen["endDate"] # pending[2].update["endDate"]
  /\ ModelFindOne(reservations, IdFilter(pending[1].id))
       = ApplySet(ApplySet(pending[1].seen, pending[1].update),
                  pending[2].update)

Ids(coll) == {coll[i]["_id"] : i \in 1..Len(coll)}

\* C14: no two stored documents have the same _id; a create that succeeds
\* stores its document under the ObjectId the repository made, whatever _id
\* the caller's document had; and every other call leaves each document it
\* keeps under the _id it had.
C14_IdAssignedOnce ==
  [][/\ Cardinality(Ids(reservations')) = Len(reservations')
     /\ IF last'.op = "create" /\ last'.outcome = "ok"
        THEN /\ last'.result["_id"] = nextOid
             /\ nextOid \notin Ids(reservations)
             /\ reservations' = Append(reservations, last'.result)
        ELSE /\ Ids(reservations') \subseteq Ids(reservations)
             /\ Len(reservations') = Len(reservations) =>
                  \A i \in 1..Len(reservations) :
                    reservations'[i]["_id"] = reservations[i]["_id"]]_vars

\* The caller handed create a document with _id 1 and it was stored under
\* the repository's ObjectId 2.
C14_Witness ==
  /\ last.op = "create"
  /\ last.outcome = "ok"
  /\ "_id" \in DOMAIN last.update
  /\ last.update["_id"] = 1
  /\ last.result["_id"] = 2
  /\ Ids(reservations) = {1, 2}

(***************************************************************************)
(* Properties of the auth service.                                         *)
(***************************************************************************)
\* C15: a registration whose email a stored user already has stores nothing:
\* every step leaves the stored users as they are, and a user it adds has an
\* email no stored user had.
C15_DuplicateRejected ==
  [][/\ Len(users') >= Len(users)
     /\ \A i \in 1..Len(users) : users'[i] = users[i]
     /\ \A k \in (Len(users) + 1)..Len(users') :
          \A i \in 1..Len(users) : users[i].email # users'[k].email]_vars

\* C16: in every reachable state no two stored users have the same email.
C16_EmailUnique ==
  \A i, j \in 1..Len(users) : users[i].email = users[j].email => i = j

\* The stored users with the email, by position.
Known(email) == {i \in 1..Len(users) : users[i].email = email}

\* C17: a login whose lookup the store answers is refused with Unauthorized
\* and gets no user when no user with the email is stored, and else goes on
\* to the comparison with the stored user of that email; a login whose
\* comparison has ended gets that user exactly when the password is the one
\* the user's hash was made of, and else is refused with Unauthorized and
\* gets no user.
C17_VerifiedExactly ==
  [][/\ \A email \in Emails, password \in LoginPasswords :
          LoginFindOne(email, password, TRUE, {"login"}) =>
            IF Known(email) = {}
            THEN /\ signin' = NoSignin
                 /\ login'.email = email
                 /\ login'.outcome = "Unauthorized"
                 /\ login'.status = 401
                 /\ login'.user = NoDoc
            ELSE /\ signin'.pc = "compare"
                 /\ signin'.password = password
                 /\ \E i \in Known(email) :
                      /\ \A j \in Known(email) : i <= j
                      /\ signin'.user = users[i]
     /\ (signin.pc = "compare" /\ signin'.pc = "idle") =>
          /\ login'.email = signin.email
          /\ login'.password = signin.password
          /\ IF /\ signin.user.password.hashed
                /\ signin.user.password.plain = signin.password.plain
             THEN /\ login'.outcome = "ok"
                  /\ login'.user = signin.user
             ELSE /\ login'.outcome = "Unauthorized"
                  /\ login'.status = 401
                  /\ login'.user = NoDoc]_vars

\* A login with the email and password of a stored user got that user.
C17_Witness ==
  /\ login.outcome = "ok"
  /\ login.up
  /\ login.user \in {users[i] : i \in Known(login.email)}
  /\ login.user.password = Hash(login.password)

\* What the client receives when its login is refused.
Refusal(l) == [status |-> l.status, body |-> l.body]

\* C18: two logins refused one after the other, the store having answered
\* both lookups, get the same response, whether the email was unknown or the
\* password was wrong.
C18_RefusalsAlike ==
  [][(/\ login.outcome = "Unauthorized" /\ login.up
      /\ login'.outcome = "Unauthorized" /\ login'.up)
       => Refusal(login') = Refusal(login)]_vars

\* C20: the token of a login carries the id of the user logged in, and the
\* cookie expires JwtExpiration seconds after the login, when the token does.
C20_CookieExpiresWithToken ==
  login.outcome = "ok" =>
    /\ login.token.userId = login.user["_id"]
    /\ login.token.exp = login.at + JwtExpiration
    /\ login.expires = login.at + JwtExpiration

\* The user a token was issued to at login, when it is the cookie the
\* request was sent with.
Holder(q) == {i \in 1..Len(users) : users[i]["_id"] = q.sent.userId}

\* C19: a request admitted with the token of a login has as its user the
\* identity of the user who logged in: same _id, same email, and no password
\* field.
C19_IdentityWithoutSecret ==
  \A r \in Reqs :
    (req[r].decision = "Admitted" /\ req[r].sent.kind = "jwt") =>
      /\ \E i \in Holder(req[r]) :
           /\ req[r].user["_id"] = users[i]["_id"]
           /\ req[r].user.email = users[i].email
      /\ "password" \notin DOMAIN req[r].user

\* The documents the two services store, and the ids they hand out.
Stored == <<users, nextUid, reservations, nextOid>>

\* C21: a step of the guard (the request moves and no handler runs) or of
\* the auth service on an 'authenticate' call leaves the stored users and
\* reservations and the client's cookie as they are, and the cookie changes
\* only at the end of a login whose lookup found a stored user with the
\* email and whose password is the one that user registered with, to a
\* token for that user.
C21_RevalidationReadsOnly ==
  [][/\ (\E r \in Reqs : \/ /\ req'[r] # req[r]
                            /\ req'[r].handler = req[r].handler
                            /\ req[r].pc \in {"guard", "await"}
                         \/ wire'[r] # wire[r])
          => UNCHANGED <<Stored, cookie>>
     /\ cookie' # cookie =>
          /\ UNCHANGED <<Stored, req>>
          /\ signin.pc = "compare"
          /\ signin'.pc = "idle"
          /\ signin.user.email = signin.email
          /\ signin.user.password.hashed
          /\ signin.user.password.plain = signin.password.plain
          /\ cookie'.userId = signin.user["_id"]
     /\ (signin.pc = "idle" /\ signin'.pc = "compare") =>
          /\ UNCHANGED <<Stored, req, cookie>>
          /\ \E i \in 1..Len(users) :
               /\ users[i].email = signin'.email
               /\ signin'.user = users[i]]_vars

\* A request was admitted on the token the client got at login, and the
\* client still holds that token.
C21_Witness ==
  /\ req[1].decision = "Admitted"
  /\ req[1].sent = cookie
  /\ cookie.kind = "jwt"
  /\ req[1].user \in {users[i] : i \in 1..Len(users)}

\* C22: register goes on from its check of the email to the create only
\* when the lookup said that no stored user has the email; a lookup the
\* store did not answer stops the registration.
C22_FailureNotTakenForFree ==
  [][\A p \in RegProcs :
       (reg[p].pc = "idle" /\ reg'[p].pc = "create") =>
         Known(reg'[p].dto.email) = {}]_vars

\* C23: while the 'authenticate' call of a request is out, any other request
\* can take its next step: come in, go through the guard, have its own call
\* verified and answered by the auth service, and be decided by that answer.
C23_PendingDoesNotBlock ==
  \A a, b \in Reqs :
    (a # b /\ req[a].pc = "await") =>
      /\ (req[b].pc = "idle" /\ cookie.kind = "jwt") => ENABLED TokenRequest(b)
      /\ req[b].pc = "guard" => ENABLED CanActivate(b)
      /\ (req[b].pc = "await" /\ wire[b].stage = "none") =>
           ENABLED AuthVerify(b)
      /\ (req[b].pc = "await" /\ wire[b].stage = "verified") =>
           \A up \in BOOLEAN : ENABLED AuthValidate(b, up)
      /\ (req[b].pc = "await" /\ wire[b].stage = "answered") =>
           ENABLED Delivered(b)

\* The call of request 1 is out, not yet taken up by the auth service, and
\* request 2 has been admitted.
C23_Witness ==
  /\ req[1].pc = "await"
  /\ wire[1].stage = "none"
  /\ req[2].pc = "decided"
  /\ req[2].decision = "Admitted"

\* C24: every request that enters the guard is eventually decided, Admitted
\* or Rejected, whether the authority answers its call or not.
C24_EventuallyDecided ==
  \A r \in Reqs :
    (req[r].pc = "guard") ~>
      (req[r].pc = "decided" /\ req[r].decision \in {"Admitted", "Rejected"})

\* C25: with several requests in flight, the user of an admitted request is
\* the one the authority answered to that request's own call, the user whose
\* _id is in the token the request sent.
C25_OwnIdentity ==
  \A r \in Reqs :
    req[r].decision = "Admitted" =>
      /\ req[r].user = req[r].reply.user
      /\ req[r].user["_id"] = req[r].sent.userId
      /\ req[r].calls = 1

\* Two requests sent with the tokens of two users are both admitted, each
\* as its own user.
C25_Witness ==
  /\ req[1].decision = "Admitted"
  /\ req[2].decision = "Admitted"
  /\ req[1].sent.userId # req[2].sent.userId
  /\ req[1].user["_id"] = req[1].sent.userId
  /\ req[2].user["_id"] = req[2].sent.userId

\* C29: when the auth service looks up the user of a verified token and no
\* user is stored under the token's userId, its answer is an error without
\* a user; a request whose call ends with anything but the answer ok is
\* Rejected and gets no user; and an admitted request has the user stored
\* under its token's userId at the lookup, never none.
C29_UnknownUserRejected ==
  [][\A r \in Reqs :
       /\ (/\ wire[r].stage = "verified"
           /\ wire'[r].stage = "answered"
           /\ \A i \in 1..Len(users) : users[i]["_id"] # req[r].sent.userId)
            => /\ wire'[r].reply.status = "error"
               /\ wire'[r].reply.error \in {"NotFound", "StoreError"}
               /\ wire'[r].reply.user = NoDoc
       /\ (/\ req[r].pc = "await"
           /\ req'[r].pc = "decided"
           /\ ~(wire[r].stage = "answered" /\ wire[r].reply.status = "ok"))
            => /\ req'[r].decision = "Rejected"
               /\ req'[r].user = NoDoc
       /\ (req[r].pc = "await" /\ req'[r].decision = "Admitted") =>
            /\ wire[r].reply.status = "ok"
            /\ req'[r].user = wire[r].reply.user
            /\ req'[r].user # NoDoc
            /\ req'[r].user["_id"] = req[r].sent.userId]_vars

\* The user was removed after the token was issued: the request with the
\* token was answered NotFound and rejected.
C29_Witness ==
  \E r \in Reqs :
    /\ req[r].decision = "Rejected"
    /\ req[r].sent.kind = "jwt"
    /\ req[r].sent.sig = JwtSecret
    /\ req[r].sent.exp > req[r].reply.at
    /\ req[r].reply.error = "NotFound"
    /\ req[r].user = NoDoc
    /\ \A i \in 1..Len(users) : users[i]["_id"] # req[r].sent.userId

\* C30: the message of an 'authenticate' call holds the credential the guard
\* took from the request in its Authentication field and has no cookies, and
\* the authority's extractor reads from it that same credential, unchanged.
C30_SameCredential ==
  \A r \in Reqs :
    req[r].calls > 0 =>
      LET message == Message(req[r].sent)
          x == JwtFromRequest(message)
      IN /\ req[r].sent = GuardJwt(req[r])
         /\ message.Authentication = req[r].sent
         /\ ~message.cookies.present
         /\ ~x.threw
         /\ x.jwt = req[r].sent

\* The call is out with the token of the request's header, cookie and field
\* holding none.
C30_Witness ==
  /\ req[1].pc = "await"
  /\ req[1].calls = 1
  /\ req[1].sent = Jwt(1, 1, JwtSecret)
  /\ req[1].headers = Holding(Jwt(1, 1, JwtSecret))
  /\ ~Truthy(Opt(req[1].cookies))
  /\ ~Truthy(req[1].Authentication)
  /\ JwtFromRequest(Message(req[1].sent)).jwt = Jwt(1, 1, JwtSecret)

\* C28: the password stored with every user is the hash of the password
\* its registration supplied, never that password itself, and a login is
\* accepted only with a password whose hash compares equal to the one stored
\* with the user it gets.
C28_PasswordsHashed ==
  /\ \A i \in 1..Len(users) :
       /\ users[i].password.hashed
       /\ users[i].password \notin {dto.password : dto \in CreateUserDtos}
       /\ \E dto \in CreateUserDtos :
            /\ dto.email = users[i].email
            /\ users[i].password.plain = dto.password.plain
  /\ login.outcome = "ok" =>
       /\ login.user.password.hashed
       /\ ~login.password.hashed
       /\ login.user.password.plain = login.password.plain

\* Two users are stored with hashed passwords and one of them has logged in
\* with the password it registered with.
C28_Witness ==
  /\ Len(users) = 2
  /\ \A i \in 1..Len(users) : users[i].password.hashed
  /\ login.outcome = "ok"
  /\ login.password = Plain("secret")
  /\ login.user.password # login.password

(***************************************************************************)
(* Properties of billing and notification.                                 *)
(***************************************************************************)
\* C26: a reservation is stored only by a create whose 'create_charge' call
\* was answered with a payment intent, with that intent's id as invoiceId
\* and the id of the create's user as userId; a create whose charge failed
\* stores nothing.
C26_BilledBeforeStored ==
  [][/\ reservations' # reservations =>
          /\ bill.pc = "charged"
          /\ bill.reply \in {intents[k] : k \in 1..Len(intents)}
          /\ \E document \in {reservations'[Len(reservations')]} :
               /\ reservations' = Append(reservations, document)
               /\ document.invoiceId = bill.reply.id
               /\ document.userId = bill.user["_id"]
     /\ (bill.pc = "charging" /\ bill'.pc = "idle") =>
          /\ reservations' = reservations
          /\ intents' = intents]_vars

\* A reservation of user 2 is stored with the id of the second intent.
C26_Witness ==
  /\ Len(reservations) = 1
  /\ Len(intents) = 2
  /\ reservations[1].invoiceId = 2
  /\ reservations[1].userId = 2
  /\ bill.pc = "idle"

\* C27: every payment intent has one 'notify-email' event, received or yet
\* to be, but the intent of a createCharge that is still to go on after
\* stripe's answer, which has none yet; an event is emitted only by a
\* createCharge whose payment intent stripe has created, to the email of
\* the charge and with the text for its amount; a charge that stripe refuses
\* emits nothing; and every event received is one mail to the event's email
\* with the event's text.
C27_NotifiedOncePaid ==
  [][/\ Len(outbox') + Len(mails') =
          Len(intents') - (IF bill'.pc = "intent" THEN 1 ELSE 0)
     /\ Len(outbox') > Len(outbox) =>
          /\ bill.pc = "intent"
          /\ intents # <<>>
          /\ bill.reply = intents[Len(intents)]
          /\ intents' = intents
          /\ outbox' = Append(outbox, [email |-> bill.charge.email,
                                       text |-> Text(bill.charge.amount)])
          /\ bill.charge.email = bill.user.email
          /\ bill'.pc = "charged"
     /\ (bill.pc = "charging" /\ bill'.pc = "idle") =>
          /\ intents' = intents
          /\ outbox' = outbox
     /\ mails' # mails =>
          /\ outbox # <<>>
          /\ outbox' = Tail(outbox)
          /\ Len(mails') = Len(mails) + 1
          /\ mails'[Len(mails')].to = Head(outbox).email
          /\ mails'[Len(mails')].text = Head(outbox).text
          /\ \A k \in 1..Len(mails) : mails'[k] = mails[k]]_vars

\* Two charges of different users and amounts were paid and both mails
\* went out, each to its user.
C27_Witness ==
  /\ Len(intents) = 2
  /\ Len(mails) = 2
  /\ outbox = <<>>
  /\ mails[1].to # mails[2].to
  /\ mails[1].text # mails[2].text

====
